---- MODULE Spec2Model ----
(***************************************************************************)
(* Avatar (packages/react/avatar/src/Avatar.tsx): a Root holding the       *)
(* shared image loading status, an Image child that drives it from an      *)
(* image-decode handle, and a Fallback child gated by a delay timer.       *)
(*                                                                         *)
(* One step of the model is one turn of the single-threaded event loop: a  *)
(* render requested from outside (mount, new props, unmount), a load/error *)
(* notification of a handle, a timer callback, or the passing of one       *)
(* millisecond.  A turn runs to completion: the render, the commit, the    *)
(* layout effects, the effects and every synchronous re-render they cause  *)
(* are part of the step, so every state of the model is a state an         *)
(* observer of the page can see.                                           *)
(***************************************************************************)
EXTENDS Integers, FiniteSets, Sequences, TLC

\* ---------------------------------------------------------------- bounds

\* Root instances that may be alive.
Roots == {1, 2}

\* Non-empty source URLs given to an Image.
Srcs == {"/a.png", "/b.png"}

\* Source URLs of images with no data: they decode to an intrinsic width of 0.
NoData == {"/empty.png"}

\* Every URL a handle may be decoding.
Urls == Srcs \cup NoData

\* An absent src prop (undefined).
Absent == "<undefined>"

\* Every value the src prop takes: absent, the empty string, or a URL.
SrcProps == {Absent, ""} \cup Srcs

\* Largest delayMs value given to a Fallback.
MaxDelay == 2

\* An absent delayMs prop (undefined).
NoDelay == -1

\* The clock of a Fallback stops counting one past the largest delay.
MaxElapsed == MaxDelay + 1

\* Handles of unmounted Images that still have a decode in flight, per Root.
MaxDisposed == 1

\* The loader status of a Root that has no Image mounted.
NoInstance == "<unmounted>"

VARIABLES
  imageLoadingStatus,  \* Avatar: the shared status of each Root
  cache,               \* the sources the platform has decoded
  imgMounted,          \* whether the Root has an Image child mounted
  src,                 \* AvatarImage: the src prop
  loadingStatus,       \* useImageLoadingStatus: the loader's status
  image,               \* useImageLoadingStatus: the decode handle (image.current)
  disposed,            \* handles of unmounted Images with a decode in flight
  addCalls,            \* addEventListener calls of the latest Image instance
  removeCalls,         \* removeEventListener calls of the latest Image instance
  swapped,             \* the src left a loaded source and its own load is awaited
  calls,               \* the callbacks invoked during the last turn, in order
  fbMounted,           \* whether the Root has a Fallback child mounted
  delayMs,             \* AvatarFallback: the delayMs prop
  canRender,           \* AvatarFallback: the canRender state
  timers,              \* remaining ms of the pending timers of the Fallback
  elapsed,             \* ms since the Fallback's delay effect last ran
  lastChange,          \* how delayMs changed since the Fallback mounted
  cancelled            \* whether the last clearTimeout hit a pending timer

imgVars == <<imgMounted, src, loadingStatus, image, disposed, addCalls,
            removeCalls, swapped>>
fbVars == <<fbMounted, delayMs, canRender, timers, elapsed, lastChange, cancelled>>
vars == <<imageLoadingStatus, cache, imgVars, calls, fbVars>>

\* ------------------------------------------------------ the decode handle

\* new window.Image(): no source, no decode in flight, no listener.
NewImage == [src |-> "", pending |-> {}, load |-> 0, error |-> 0]

\* set src: an empty value is ignored; any other starts a decode whose
\* notification arrives in a later turn.
SetImageSrc(img, s) ==
  IF s = "" THEN img
  ELSE [img EXCEPT !.src = s, !.pending = @ \cup {s}]

\* get complete
Complete(img) == img.src = "" \/ img.src \in cache

\* get naturalWidth: 300 once complete, and 0 for an image with no data.
NaturalWidth(img) == IF Complete(img) /\ img.src \notin NoData THEN 300 ELSE 0

\* ------------------------------------------------ useImageLoadingStatus

\* !src
Falsy(s) == s \in {Absent, ""}

\* A computation that never looks at the handle: loading for every src given.
InitialStateAlwaysLoading(img, s) ==
  IF Falsy(s) THEN [status |-> "error", image |-> img]
  ELSE [status |-> "loading",
        image |-> IF img.src # s THEN SetImageSrc(img, s) ELSE img]

\* The status computed for src s and the handle as the call leaves it.
setImageSrcAndGetInitialState(img, s) ==
  IF Falsy(s) THEN [status |-> "error", image |-> img]
  ELSE LET assigned == IF img.src # s THEN SetImageSrc(img, s) ELSE img
       IN [status |-> IF Complete(assigned) /\ NaturalWidth(assigned) > 0
                        THEN "loaded" ELSE "loading",
           image |-> assigned]

\* The effect given no dependency list: the status is computed again at
\* every render.
SrcEffectEveryRender(img, cur, prevSrc, s) ==
  setImageSrcAndGetInitialState(img, s)

\* The layout effect on [src]: it runs when the src prop differs from the
\* one of the previous commit, and sets the status computed for the new src.
SrcEffect(img, cur, prevSrc, s) ==
  IF s # prevSrc THEN setImageSrcAndGetInitialState(img, s)
  ELSE [status |-> cur, image |-> img]

\* The effect given no dependency list: it runs again, after its cleanup,
\* at every render.
SubscribeEveryRender(img, mounting) ==
  [image |-> [img EXCEPT !.load = 1, !.error = 1],
   adds |-> 2, removes |-> IF mounting THEN 0 ELSE 2]

\* The layout effect on []: at mount, and at no later render, one load and
\* one error listener are added.
Subscribe(img, mounting) ==
  IF mounting
    THEN [image |-> [img EXCEPT !.load = @ + 1, !.error = @ + 1],
          adds |-> 2, removes |-> 0]
    ELSE [image |-> img, adds |-> 0, removes |-> 0]

\* A cleanup that removes nothing.
UnsubscribeLeak(img) == [image |-> img, removes |-> 0]

\* Its cleanup: both listeners are removed.
Unsubscribe(img) ==
  [image |-> [img EXCEPT !.load = 0, !.error = 0], removes |-> 2]

\* updateStatus(status): the status a listener sets.
updateStatus(type) == IF type = "load" THEN "loaded" ELSE "error"

\* dispatchEvent: every listener of the event's type runs setLoadingStatus.
DispatchEvent(img, type) ==
  << [fn |-> "dispatchEvent", arg |-> type] >> \o
  [i \in 1..(IF type = "load" THEN img.load ELSE img.error) |->
     [fn |-> "setLoadingStatus", arg |-> updateStatus(type)]]

\* The loader status after the setLoadingStatus calls of a turn.
SetLoadingStatus(status, cs) ==
  LET set == {i \in 1..Len(cs) : cs[i].fn = "setLoadingStatus"}
  IN IF set = {} THEN status
     ELSE cs[CHOOSE i \in set : \A j \in set : j <= i].arg

\* -------------------------------------------------------- AvatarImage

\* The instance's callback alone: the Root is not told.
handleLocalCallbackOnly(status) ==
  << [fn |-> "onLoadingStatusChange", arg |-> status] >>

\* handleLoadingStatusChange: the instance's callback, then the Root's setter.
handleLoadingStatusChange(status) ==
  << [fn |-> "onLoadingStatusChange", arg |-> status],
     [fn |-> "onImageLoadingStatusChange", arg |-> status] >>

\* The effect given an empty dependency list: it runs at mount alone.
NotifyEffectAtMountOnly(prev, cur) ==
  IF prev = NoInstance /\ cur # "idle" THEN handleLoadingStatusChange(cur) ELSE <<>>

\* The layout effect on [imageLoadingStatus, handleLoadingStatusChange]: it
\* runs at mount and when the status differs from the one of the previous
\* commit (the callback ref is stable), and notifies unless the status is idle.
NotifyEffect(prev, cur) ==
  IF cur # prev /\ cur # "idle" THEN handleLoadingStatusChange(cur) ELSE <<>>

\* The Root's state after the setter calls of a turn.
SetImageLoadingStatus(status, cs) ==
  LET set == {i \in 1..Len(cs) : cs[i].fn = "onImageLoadingStatusChange"}
  IN IF set = {} THEN status
     ELSE cs[CHOOSE i \in set : \A j \in set : j <= i].arg

\* What AvatarImage renders: the img element, or nothing.
ImageRendered(r) == imgMounted[r] /\ loadingStatus[r] = "loaded"

\* ------------------------------------------------------ AvatarFallback

\* Every value the delayMs prop takes: absent, or a number of ms.
Delays == {NoDelay} \cup (0..MaxDelay)

\* useState(true): canRender whatever the delay.
InitialCanRenderAlways(d) == TRUE

\* useState(delayMs === undefined): canRender at mount.
InitialCanRender(d) == d = NoDelay

\* The effect on [delayMs]: window.setTimeout(() => setCanRender(true), delayMs)
\* when a delay is given; ts are the timers pending before.
DelayEffect(ts, d) == IF d # NoDelay THEN ts \cup {d} ELSE ts

\* An effect that returns no cleanup: the timer is left pending.
DelayCleanupMissing(ts, prev) == ts

\* Its cleanup, which exists when the effect ran with a delay prev:
\* window.clearTimeout(timerId).
DelayCleanup(ts, prev) == IF prev # NoDelay THEN {} ELSE ts

\* A Fallback that does not look at the Root's status.
FallbackRenderedWhateverStatus(r) == fbMounted[r] /\ canRender[r]

\* A Fallback that reads one status shared by every Root, the first Root's.
FallbackRenderedUnscoped(r) ==
  fbMounted[r] /\ canRender[r] /\ imageLoadingStatus[1] # "loaded"

\* What AvatarFallback renders: its content, or nothing.
FallbackRendered(r) ==
  fbMounted[r] /\ canRender[r] /\ imageLoadingStatus[r] # "loaded"

\* ------------------------------------------------------------- helpers

NoCalls == [q \in Roots |-> <<>>]

CallsOf(r, cs) == [NoCalls EXCEPT ![r] = cs]

\* ------------------------------------------------------------ actions

Init ==
  /\ imageLoadingStatus = [r \in Roots |-> "idle"]
  /\ cache = {}
  /\ imgMounted = [r \in Roots |-> FALSE]
  /\ src = [r \in Roots |-> Absent]
  /\ loadingStatus = [r \in Roots |-> NoInstance]
  /\ image = [r \in Roots |-> NewImage]
  /\ disposed = [r \in Roots |-> {}]
  /\ addCalls = [r \in Roots |-> 0]
  /\ removeCalls = [r \in Roots |-> 0]
  /\ swapped = [r \in Roots |-> FALSE]
  /\ calls = NoCalls
  /\ fbMounted = [r \in Roots |-> FALSE]
  /\ delayMs = [r \in Roots |-> NoDelay]
  /\ canRender = [r \in Roots |-> FALSE]
  /\ timers = [r \in Roots |-> {}]
  /\ elapsed = [r \in Roots |-> 0]
  /\ lastChange = [r \in Roots |-> "none"]
  /\ cancelled = [r \in Roots |-> FALSE]

\* An Image with src s is mounted under Root r.
MountImage(r, s) ==
  /\ ~imgMounted[r]
  /\ LET init == setImageSrcAndGetInitialState(NewImage, s)
         eff == SrcEffect(init.image, init.status, NoInstance, s)
         sub == Subscribe(eff.image, TRUE)
         cs == NotifyEffect(NoInstance, init.status)
                 \o NotifyEffect(init.status, eff.status)
     IN /\ imgMounted' = [imgMounted EXCEPT ![r] = TRUE]
        /\ src' = [src EXCEPT ![r] = s]
        /\ loadingStatus' = [loadingStatus EXCEPT ![r] = eff.status]
        /\ image' = [image EXCEPT ![r] = sub.image]
        /\ addCalls' = [addCalls EXCEPT ![r] = sub.adds]
        /\ removeCalls' = [removeCalls EXCEPT ![r] = 0]
        /\ swapped' = [swapped EXCEPT ![r] = FALSE]
        /\ calls' = CallsOf(r, cs)
        /\ imageLoadingStatus' =
             [imageLoadingStatus EXCEPT ![r] = SetImageLoadingStatus(@, cs)]
  /\ UNCHANGED <<cache, disposed, fbVars>>

\* The mounted Image of Root r is rendered again, with src s.
RenderImage(r, s) ==
  /\ imgMounted[r]
  /\ LET eff == SrcEffect(image[r], loadingStatus[r], src[r], s)
         sub == Subscribe(eff.image, FALSE)
         cs == NotifyEffect(loadingStatus[r], eff.status)
     IN /\ src' = [src EXCEPT ![r] = s]
        /\ loadingStatus' = [loadingStatus EXCEPT ![r] = eff.status]
        /\ image' = [image EXCEPT ![r] = sub.image]
        /\ addCalls' = [addCalls EXCEPT ![r] = @ + sub.adds]
        /\ removeCalls' = [removeCalls EXCEPT ![r] = @ + sub.removes]
        /\ swapped' = [swapped EXCEPT ![r] =
             IF s = src[r] THEN @
             ELSE /\ ~Falsy(src[r]) /\ loadingStatus[r] = "loaded"
                  /\ ~Falsy(s) /\ s \notin cache]
        /\ calls' = CallsOf(r, cs)
        /\ imageLoadingStatus' =
             [imageLoadingStatus EXCEPT ![r] = SetImageLoadingStatus(@, cs)]
  /\ UNCHANGED <<cache, imgMounted, disposed, fbVars>>

\* The Image of Root r is unmounted; its handle lives on while a decode is
\* in flight.
UnmountImage(r) ==
  /\ imgMounted[r]
  /\ LET unsub == Unsubscribe(image[r])
         left == IF unsub.image.pending = {} THEN disposed[r]
                 ELSE disposed[r] \cup {unsub.image}
     IN /\ Cardinality(left) <= MaxDisposed
        /\ disposed' = [disposed EXCEPT ![r] = left]
        /\ removeCalls' = [removeCalls EXCEPT ![r] = @ + unsub.removes]
  /\ imgMounted' = [imgMounted EXCEPT ![r] = FALSE]
  /\ src' = [src EXCEPT ![r] = Absent]
  /\ loadingStatus' = [loadingStatus EXCEPT ![r] = NoInstance]
  /\ image' = [image EXCEPT ![r] = NewImage]
  /\ swapped' = [swapped EXCEPT ![r] = FALSE]
  /\ calls' = NoCalls
  /\ UNCHANGED <<imageLoadingStatus, cache, addCalls, fbVars>>

\* The handle of the mounted Image of Root r emits the load or error
\* notification of the decode of s.
ImageNotifies(r, s, type) ==
  /\ imgMounted[r]
  /\ s \in image[r].pending
  /\ LET hs == DispatchEvent(image[r], type)
         status == SetLoadingStatus(loadingStatus[r], hs)
         cs == hs \o NotifyEffect(loadingStatus[r], status)
     IN /\ loadingStatus' = [loadingStatus EXCEPT ![r] = status]
        /\ calls' = CallsOf(r, cs)
        /\ imageLoadingStatus' =
             [imageLoadingStatus EXCEPT ![r] = SetImageLoadingStatus(@, cs)]
  /\ cache' = IF type = "load" THEN cache \cup {image[r].src} ELSE cache
  /\ image' = [image EXCEPT ![r].pending = @ \ {s}]
  /\ swapped' = [swapped EXCEPT ![r] = @ /\ ~(s = src[r] /\ type = "load")]
  /\ UNCHANGED <<imgMounted, src, disposed, addCalls, removeCalls, fbVars>>

\* The handle d of an unmounted Image of Root r emits the notification of
\* the decode of s: a listener left on it would run, on an instance that no
\* longer exists, and React drops the update.
DisposedNotifies(r, d, s, type) ==
  /\ d \in disposed[r]
  /\ s \in d.pending
  /\ calls' = CallsOf(r, DispatchEvent(d, type))
  /\ cache' = IF type = "load" THEN cache \cup {d.src} ELSE cache
  /\ LET rest == [d EXCEPT !.pending = @ \ {s}]
     IN disposed' = [disposed EXCEPT ![r] =
          (@ \ {d}) \cup (IF rest.pending = {} THEN {} ELSE {rest})]
  /\ UNCHANGED <<imageLoadingStatus, imgMounted, src, loadingStatus,
                 image, addCalls, removeCalls, swapped, fbVars>>

\* A Fallback with delayMs d is mounted under Root r.
MountFallback(r, d) ==
  /\ ~fbMounted[r]
  /\ fbMounted' = [fbMounted EXCEPT ![r] = TRUE]
  /\ delayMs' = [delayMs EXCEPT ![r] = d]
  /\ canRender' = [canRender EXCEPT ![r] = InitialCanRender(d)]
  /\ timers' = [timers EXCEPT ![r] = DelayEffect(@, d)]
  /\ elapsed' = [elapsed EXCEPT ![r] = 0]
  /\ lastChange' = [lastChange EXCEPT ![r] = "none"]
  /\ cancelled' = [cancelled EXCEPT ![r] = FALSE]
  /\ calls' = NoCalls
  /\ UNCHANGED <<imageLoadingStatus, cache, imgVars>>

\* The mounted Fallback of Root r is rendered again, with delayMs d: the
\* effect runs again, after its cleanup, when delayMs changed.
RenderFallback(r, d) ==
  /\ fbMounted[r]
  /\ delayMs' = [delayMs EXCEPT ![r] = d]
  /\ IF d # delayMs[r]
       THEN LET cleared == DelayCleanup(timers[r], delayMs[r])
            IN /\ timers' = [timers EXCEPT ![r] = DelayEffect(cleared, d)]
               /\ cancelled' = [cancelled EXCEPT ![r] = cleared # timers[r]]
               /\ elapsed' = [elapsed EXCEPT ![r] = 0]
               /\ lastChange' = [lastChange EXCEPT ![r] =
                    IF d # NoDelay /\ delayMs[r] # NoDelay /\ @ # "toggled"
                      THEN "retimed" ELSE "toggled"]
       ELSE UNCHANGED <<timers, cancelled, elapsed, lastChange>>
  /\ calls' = NoCalls
  /\ UNCHANGED <<imageLoadingStatus, cache, imgVars, fbMounted, canRender>>

\* The Fallback of Root r is unmounted: the cleanup of its effect runs.
UnmountFallback(r) ==
  /\ fbMounted[r]
  /\ LET cleared == DelayCleanup(timers[r], delayMs[r])
     IN /\ timers' = [timers EXCEPT ![r] = cleared]
        /\ cancelled' = [cancelled EXCEPT ![r] = cleared # timers[r]]
  /\ fbMounted' = [fbMounted EXCEPT ![r] = FALSE]
  /\ delayMs' = [delayMs EXCEPT ![r] = NoDelay]
  /\ canRender' = [canRender EXCEPT ![r] = FALSE]
  /\ elapsed' = [elapsed EXCEPT ![r] = 0]
  /\ lastChange' = [lastChange EXCEPT ![r] = "none"]
  /\ calls' = NoCalls
  /\ UNCHANGED <<imageLoadingStatus, cache, imgVars>>

\* A timer of the Fallback of Root r is due and its callback runs:
\* setCanRender(true), on the instance if it is still there.
TimerFires(r) ==
  /\ 0 \in timers[r]
  /\ timers' = [timers EXCEPT ![r] = @ \ {0}]
  /\ canRender' = [canRender EXCEPT ![r] = @ \/ fbMounted[r]]
  /\ calls' = NoCalls
  /\ UNCHANGED <<imageLoadingStatus, cache, imgVars, fbMounted, delayMs,
                 elapsed, lastChange, cancelled>>

\* One millisecond passes: no timer runs before its delay has passed.
Tick ==
  /\ \E r \in Roots : timers[r] # {} \/ (delayMs[r] # NoDelay /\ elapsed[r] < MaxElapsed)
  /\ timers' = [r \in Roots |-> {IF t > 0 THEN t - 1 ELSE 0 : t \in timers[r]}]
  /\ elapsed' = [r \in Roots |->
       IF delayMs[r] # NoDelay /\ elapsed[r] < MaxElapsed THEN elapsed[r] + 1
       ELSE elapsed[r]]
  /\ calls' = NoCalls
  /\ UNCHANGED <<imageLoadingStatus, cache, imgVars, fbMounted, delayMs,
                 canRender, lastChange, cancelled>>

\* The turns of the Images of the Roots R, given sources from S.
ImageStep(R, S) ==
  \/ \E r \in R, s \in S : MountImage(r, s)
  \/ \E r \in R, s \in S : RenderImage(r, s)
  \/ \E r \in R : UnmountImage(r)
  \/ \E r \in R, s \in Urls, type \in {"load", "error"} : ImageNotifies(r, s, type)
  \/ \E r \in R, s \in Urls, type \in {"load", "error"} :
       \E d \in disposed[r] : DisposedNotifies(r, d, s, type)

\* The turns of the Fallbacks of the Roots R, given delays from D.
FallbackStep(R, D) ==
  \/ \E r \in R, d \in D : MountFallback(r, d)
  \/ \E r \in R, d \in D : RenderFallback(r, d)
  \/ \E r \in R : UnmountFallback(r)
  \/ \E r \in R : TimerFires(r)
  \/ Tick

\* One avatar: a Root with an Image and a Fallback.
Next == ImageStep({1}, SrcProps) \/ FallbackStep({1}, Delays)

Spec == Init /\ [][Next]_vars

\* The Image of one Root alone.  A Fallback writes no state the Image or the
\* Root reads, so what holds of the Image here holds of it beside a Fallback.
NextImage == ImageStep({1}, SrcProps)

SpecImage == Init /\ [][NextImage]_vars

\* The Fallback of one Root, beside an Image that is given no source or one.
NextFallback == ImageStep({1}, {Absent, "/a.png"}) \/ FallbackStep({1}, Delays)

SpecFallback == Init /\ [][NextFallback]_vars

\* The Image of one Root, given no source, a source with data or a source
\* with none.
NextNoData == ImageStep({1}, {Absent, "/a.png"} \cup NoData)

SpecNoData == Init /\ [][NextNoData]_vars

\* Two avatars side by side: each Root with an Image, given no source or
\* one, and the second with a Fallback, given no delay or the shortest.
NextRoots ==
  ImageStep(Roots, {Absent, "/a.png"}) \/ FallbackStep({2}, {NoDelay, 0})

SpecRoots == Init /\ [][NextRoots]_vars

\* The platform delivers the notification of every decode it started: the
\* handle of the mounted Image of the first Root is not left waiting for ever.
Delivery ==
  \E s \in Urls, type \in {"load", "error"} : ImageNotifies(1, s, type)

\* One avatar whose Image is given no source or one and whose Fallback is
\* given no delay or the shortest, on a platform that delivers.
NextLoad ==
  ImageStep({1}, {Absent, "/a.png"}) \/ FallbackStep({1}, {NoDelay, 0})

SpecLoad == Init /\ [][NextLoad]_vars /\ WF_vars(Delivery)

\* ------------------------------------------------------------- claims

\* The callbacks of AvatarImage among the calls cs.
Callbacks(cs) ==
  SelectSeq(cs, LAMBDA c :
    c.fn \in {"onLoadingStatusChange", "onImageLoadingStatusChange"})

\* C1: while the src of a mounted Image is absent or the empty string, the
\* loader status is error and the img element is not rendered, whatever
\* happened to an earlier source on the same handle.
C1_FalsySrcIsError ==
  \A r \in Roots :
    imgMounted[r] /\ Falsy(src[r]) =>
      loadingStatus[r] = "error" /\ ~ImageRendered(r)

\* C2: a notification of a source that was assigned before the src changed
\* never decides the status shown for the current source: the turn that
\* delivers it to an Image now given another (non-empty) src leaves the
\* loader status as the change of src computed it.
C2_NoStaleCrossSourceStatus ==
  [][\A r \in Roots :
       /\ imgMounted[r] /\ imgMounted'[r] /\ ~Falsy(src[r])
       /\ \E s \in image[r].pending : s \notin image'[r].pending /\ s # src[r]
       => loadingStatus'[r] = loadingStatus[r]]_vars

\* C3: a mounted Image has exactly one load and one error listener on its
\* handle, added by two addEventListener calls whatever its src went through;
\* once it is unmounted, as many removeEventListener as addEventListener
\* calls were made and no listener is left on a handle whose decode is still
\* in flight.
C3_ListenerBalance ==
  \A r \in Roots :
    /\ imgMounted[r] =>
         /\ image[r].load = 1 /\ image[r].error = 1
         /\ addCalls[r] = 2 /\ removeCalls[r] = 0
    /\ ~imgMounted[r] => addCalls[r] = removeCalls[r]
    /\ \A d \in disposed[r] : d.load = 0 /\ d.error = 0

\* An Image unmounted after a change of src, with both decodes in flight.
C3_Witness ==
  /\ ~imgMounted[1] /\ addCalls[1] = 2 /\ removeCalls[1] = 2
  /\ \E d \in disposed[1] : d.pending = Srcs

\* C5: a notification emitted by the handle of an Image that was unmounted
\* changes no loader status and no shared status of any Root, and runs no
\* listener and no callback: nothing but the dispatch happens in its turn.
C5_LateNotificationIgnored ==
  [][\A r \in Roots :
       (\E d \in disposed[r] : d \notin disposed'[r]) =>
         /\ loadingStatus' = loadingStatus
         /\ imageLoadingStatus' = imageLoadingStatus
         /\ \A q \in Roots : \A i \in 1..Len(calls'[q]) :
              calls'[q][i].fn = "dispatchEvent"]_vars

\* The load notification arrived after the Image was unmounted with the
\* status still loading.
C5_Witness ==
  /\ ~imgMounted[1]
  /\ imageLoadingStatus[1] = "loading"
  /\ calls[1] = << [fn |-> "dispatchEvent", arg |-> "load"] >>

\* C9: in every turn, the loader status of a mounted Image changed (the
\* first status at mount included) exactly when onLoadingStatusChange and
\* then the Root's setter were called, once each, with the new status; no
\* call is ever made with idle.
C9_EveryTransitionNotifiedOnce ==
  [][\A r \in Roots :
       /\ Callbacks(calls'[r]) =
            IF imgMounted'[r] /\ loadingStatus'[r] # loadingStatus[r]
              THEN << [fn |-> "onLoadingStatusChange", arg |-> loadingStatus'[r]],
                      [fn |-> "onImageLoadingStatusChange", arg |-> loadingStatus'[r]] >>
              ELSE <<>>
       /\ \A i \in 1..Len(calls'[r]) : calls'[r][i].arg # "idle"]_vars

\* A load notification moved the status of a mounted Image to loaded and
\* both callbacks were told.
C9_Witness ==
  /\ imgMounted[1]
  /\ calls[1] = << [fn |-> "dispatchEvent", arg |-> "load"],
                   [fn |-> "setLoadingStatus", arg |-> "loaded"],
                   [fn |-> "onLoadingStatusChange", arg |-> "loaded"],
                   [fn |-> "onImageLoadingStatusChange", arg |-> "loaded"] >>

\* C10: the img element is rendered only when the Root's shared status is
\* loaded, and the shared status equals the status of the mounted Image.
C10_ImageOnlyWhenSharedLoaded ==
  \A r \in Roots :
    /\ ImageRendered(r) => imageLoadingStatus[r] = "loaded"
    /\ imgMounted[r] => imageLoadingStatus[r] = loadingStatus[r]

\* The img element is rendered for a second source, after the first loaded.
C10_Witness ==
  /\ ImageRendered(1) /\ src[1] = "/b.png"
  /\ imageLoadingStatus[1] = "loaded"
  /\ cache = Srcs

\* C4: a Fallback has at most one delay timer pending, and none once it is
\* unmounted: the timer pending at teardown is cancelled, so its callback
\* cannot run afterwards.
C4_TimerCancelledOnTeardown ==
  \A r \in Roots :
    /\ Cardinality(timers[r]) <= 1
    /\ ~fbMounted[r] => timers[r] = {}

\* A Fallback was unmounted while its delay timer was pending.
C4_Witness == ~fbMounted[1] /\ cancelled[1] /\ timers[1] = {}

\* The delay of the mounted Fallback is satisfied: none is configured, or
\* the timer of the configured one has run.
DelaySatisfied(r) == delayMs[r] = NoDelay \/ timers[r] = {}

\* C6: a mounted Fallback renders its content if and only if its delay is
\* satisfied (the configured delay has elapsed, or none is configured) and
\* the Root's shared status is not loaded, also after delayMs changed.
C6_FallbackVisibility ==
  \A r \in Roots :
    fbMounted[r] =>
      (FallbackRendered(r) <=>
         DelaySatisfied(r) /\ imageLoadingStatus[r] # "loaded")

\* C7 as stated: a Fallback mounted with a delay d >= 0, under a Root whose
\* status is not loaded, is rendered exactly in the states at or after d ms
\* since mount.
C7_RenderedFromDelayOn ==
  \A r \in Roots :
    /\ fbMounted[r] /\ delayMs[r] # NoDelay /\ lastChange[r] = "none"
    /\ imageLoadingStatus[r] # "loaded"
    => (FallbackRendered(r) <=> elapsed[r] >= delayMs[r])

\* C7 as amended: such a Fallback is rendered exactly in the states after
\* its delay timer's callback has run, and never before d ms since mount.
C7_RenderedOnceTimerRan ==
  \A r \in Roots :
    /\ fbMounted[r] /\ delayMs[r] # NoDelay /\ lastChange[r] = "none"
    /\ imageLoadingStatus[r] # "loaded"
    => /\ FallbackRendered(r) <=> timers[r] = {}
       /\ FallbackRendered(r) => elapsed[r] >= delayMs[r]

\* The Fallback appears exactly when its longest delay has passed.
C7_Witness ==
  /\ FallbackRendered(1) /\ lastChange[1] = "none"
  /\ delayMs[1] = MaxDelay /\ elapsed[1] = MaxDelay

\* C8: after delayMs, a number since mount, changed to another, d2, the old timer
\* is gone and the gate starts again: until d2 ms after the change one timer
\* is pending, due at d2 ms, and the Fallback is not eligible, whether or
\* not the old timer had run.
C8_DelayChangeRestartsGate ==
  \A r \in Roots :
    fbMounted[r] /\ lastChange[r] = "retimed" /\ elapsed[r] < delayMs[r] =>
      /\ timers[r] = {delayMs[r] - elapsed[r]}
      /\ ~canRender[r]

\* C14: whenever the status of a mounted Image is loaded, the decode of its
\* handle's source succeeded and the handle's natural width is positive, so
\* an image with no data never hides the fallback behind status loaded.
C14_LoadedHasPositiveWidth ==
  \A r \in Roots :
    imgMounted[r] /\ (loadingStatus[r] = "loaded" \/ imageLoadingStatus[r] = "loaded") =>
      image[r].src \in cache /\ NaturalWidth(image[r]) > 0

\* The two callbacks of AvatarImage, told the status loaded.
ToldLoaded ==
  << [fn |-> "onLoadingStatusChange", arg |-> "loaded"],
     [fn |-> "onImageLoadingStatusChange", arg |-> "loaded"] >>

\* C11: the turn that mounts an Image with a source the platform has already
\* decoded (with a positive natural width) ends with status loaded and the
\* img element rendered, and the only status the callbacks are told in it,
\* once each, is loaded: no loading state is computed or observable.
C11_CachedFastPath ==
  [][\A r \in Roots :
       ~imgMounted[r] /\ imgMounted'[r] /\ src'[r] \in cache \ NoData =>
         /\ loadingStatus'[r] = "loaded"
         /\ ImageRendered(r)'
         /\ imageLoadingStatus'[r] = "loaded"
         /\ calls'[r] = ToldLoaded]_vars

\* An Image mounted again, with the source that loaded before the unmount and
\* while the decode started for the other source is still in flight: it is
\* rendered at once.
C11_Witness ==
  /\ ImageRendered(1) /\ calls[1] = ToldLoaded
  /\ src[1] \in cache /\ image[1].pending = {src[1]}
  /\ \E d \in disposed[1] : d.src # src[1]

\* C12: after the src of a mounted Image changed from a loaded source to
\* another one, not yet decoded, the img element is not rendered in any state
\* until the load notification of the new source is delivered, and the turn
\* that delivers it renders the img element again, with the new src.
C12_HiddenUntilNewSourceLoads ==
  /\ [](\A r \in Roots : swapped[r] => ~ImageRendered(r))
  /\ [][\A r \in Roots :
          swapped[r] /\ ~swapped'[r] /\ imgMounted'[r] /\ src'[r] = src[r] =>
            ImageRendered(r)']_vars

\* C15, for a failed decode (the absent source is the case of C1): once the
\* status of a mounted Image is error for its src value and the notification
\* of that source's decode has been delivered, the status is error after
\* every turn that leaves the Image mounted with the same src value: no
\* notification moves it to loading or loaded.
C15_ErrorIsTerminal ==
  [][\A r \in Roots :
       /\ imgMounted[r] /\ imgMounted'[r]
       /\ ~Falsy(src[r]) /\ src[r] \notin image[r].pending
       /\ loadingStatus[r] = "error" /\ src'[r] = src[r]
       => loadingStatus'[r] = "error"]_vars

\* C16: a turn that renders a mounted Image again with the src value it
\* has (a turn that keeps the Image and its src and dispatches no event)
\* leaves the status and the Root's status unchanged, leaves the handle as it
\* is (its source is not assigned again, no decode is started), makes no
\* addEventListener or removeEventListener call and tells no callback.
C16_SameSrcRenderIsNoOp ==
  [][\A r \in Roots :
       /\ imgMounted[r] /\ imgMounted'[r] /\ src'[r] = src[r]
       /\ \A i \in 1..Len(calls'[r]) : calls'[r][i].fn # "dispatchEvent"
       => /\ loadingStatus'[r] = loadingStatus[r]
          /\ imageLoadingStatus'[r] = imageLoadingStatus[r]
          /\ image'[r] = image[r]
          /\ addCalls'[r] = addCalls[r] /\ removeCalls'[r] = removeCalls[r]
          /\ calls'[r] = <<>>]_vars

\* An Image whose decode failed was rendered again with the same src: its
\* status is still error (a change of src gives a URL loading or loaded) and
\* its handle has the two listeners of the mount.
C16_Witness ==
  /\ imgMounted[1] /\ src[1] = "/a.png" /\ loadingStatus[1] = "error"
  /\ calls[1] = <<>>
  /\ image[1] = [src |-> "/a.png", pending |-> {}, load |-> 1, error |-> 1]
  /\ addCalls[1] = 2

\* C18: in every state in which the Fallback of a Root is mounted and its
\* delay is satisfied (delayMs as given at mount, so that eligibility follows
\* the timer), the img element or the fallback content is rendered, whatever
\* Images were mounted and unmounted under the Root before.
C18_NoBlankAvatar ==
  \A r \in Roots :
    fbMounted[r] /\ lastChange[r] = "none" /\ DelaySatisfied(r) =>
      ImageRendered(r) \/ FallbackRendered(r)

\* What belongs to Root r: its status and the state of its children.
Avatar(r) ==
  << imageLoadingStatus[r], imgMounted[r], src[r], loadingStatus[r], image[r],
     disposed[r], fbMounted[r], delayMs[r], canRender[r], timers[r] >>

\* C17: the shared status of a Root under which no Image was ever mounted is
\* idle; a turn changes the shared status of a Root only by the call of that
\* Root's setter from the Image mounted under it; and a turn in which
\* anything of one Root changes (a load or error, a change of src, a timer,
\* a mount or unmount) leaves the shared status and the fallback visibility
\* of every other Root as they were.
C17_RootIsolation ==
  /\ [](\A r \in Roots : addCalls[r] = 0 => imageLoadingStatus[r] = "idle")
  /\ [][\A r \in Roots :
          /\ imageLoadingStatus'[r] # imageLoadingStatus[r] =>
               /\ imgMounted'[r]
               /\ \E i \in 1..Len(calls'[r]) :
                    calls'[r][i] = [fn |-> "onImageLoadingStatusChange",
                                    arg |-> imageLoadingStatus'[r]]
          /\ Avatar(r)' # Avatar(r) =>
               \A q \in Roots \ {r} :
                 /\ imageLoadingStatus'[q] = imageLoadingStatus[q]
                 /\ FallbackRendered(q)' <=> FallbackRendered(q)]_vars

\* The Image of the first Root has just loaded, while the second Root, its
\* Image still loading the same source, goes on showing its Fallback.
C17_Witness ==
  /\ imageLoadingStatus[1] = "loaded" /\ ImageRendered(1)
  /\ imageLoadingStatus[2] = "loading" /\ src[2] = src[1]
  /\ FallbackRendered(2)
  /\ calls[1] = << [fn |-> "dispatchEvent", arg |-> "load"],
                   [fn |-> "setLoadingStatus", arg |-> "loaded"] >> \o ToldLoaded

\* The avatar of Root r as it is mounted in the load scenario: an Image
\* loading a non-empty src, the one decode its handle was given in flight,
\* and a Fallback with no delay.
Awaiting(r) ==
  /\ imgMounted[r] /\ src[r] \in Srcs /\ loadingStatus[r] = "loading"
  /\ image[r].pending = {src[r]}
  /\ fbMounted[r] /\ delayMs[r] = NoDelay /\ lastChange[r] = "none"

\* The img element is rendered and the fallback content is not.
Shown(r) == ImageRendered(r) /\ ~FallbackRendered(r)

\* C13: an avatar mounted with a non-empty, undecoded src and no fallback
\* delay renders the fallback and not the image; unless the Image is
\* unmounted or given another src, or its decode fails, the image is
\* eventually rendered and the fallback is not; and that remains so in every
\* turn that keeps the Image and its src, no other decode being in flight.
C13_LoadScenario ==
  /\ [](\A r \in Roots : Awaiting(r) => FallbackRendered(r) /\ ~ImageRendered(r))
  /\ \A r \in Roots : \A s \in Srcs :
       (Awaiting(r) /\ src[r] = s) ~>
         (Shown(r) \/ ~imgMounted[r] \/ src[r] # s \/ loadingStatus[r] = "error")
  /\ [][\A r \in Roots :
          /\ Shown(r) /\ image[r].pending = {}
          /\ imgMounted'[r] /\ src'[r] = src[r]
          => Shown(r)']_vars

\* The load notification has just arrived: the image is shown in place of
\* the fallback, which no delay holds back.
C13_Witness ==
  /\ Shown(1) /\ fbMounted[1] /\ canRender[1] /\ delayMs[1] = NoDelay
  /\ src[1] = "/a.png" /\ image[1].pending = {}
  /\ calls[1] = << [fn |-> "dispatchEvent", arg |-> "load"],
                   [fn |-> "setLoadingStatus", arg |-> "loaded"] >> \o ToldLoaded

====
